---------------------------- MODULE Spec2Model ----------------------------
(***************************************************************************)
(* Project KILOS ML service: the NTLDetector ensemble (ntl_detector.py),   *)
(* its saved bundle on disk, the training pipeline (train_model.py) and    *)
(* the callers of one detector object.                                     *)
(*                                                                         *)
(* Units.  A classifier's theft probability is an integer percentage       *)
(* 0..100, a fusion weight is in hundredths (0.20 -> 20), so a fused       *)
(* probability is in units of 1/10000 and confidence_score (percent) is    *)
(* fused / 100.                                                            *)
(*                                                                         *)
(* A fitted estimator is identified by the training run that fitted it:    *)
(* run 0 is the run of an earlier process whose bundle is already on disk  *)
(* when the model starts, runs 1..MaxRuns are the calls of train().        *)
(***************************************************************************)
EXTENDS Integers, Sequences, FiniteSets, TLC

VARIABLES
    models,         \* self.models: ordered dict name -> estimator
    scaler,         \* self.scaler
    model_weights,  \* self.model_weights: ordered dict name -> weight
    is_trained,     \* self.is_trained
    feature_names,  \* len(self.feature_engineer.feature_names)
    load_log,       \* what _load_model did in the constructor
    disk,           \* model/saved_models/ensemble_model.pkl
    nextRun,        \* identifier of the next training run
    pc,             \* position of each caller
    loc,            \* locals of the call each caller is in
    result          \* what each caller's last call returned or raised

vars == <<models, scaler, model_weights, is_trained, feature_names,
          load_log, disk, nextRun, pc, loc, result>>

detector == <<models, scaler, model_weights, is_trained, feature_names>>

----------------------------------------------------------------------------
(* Bounds *)

MaxRuns == 2
NumRows == 2
MaxBatch == 2
MaxMajority == 12
MaxMinority == 1

----------------------------------------------------------------------------
(* Program constants *)

NumFeatures == 30
SmoteRatio == 10
DecisionThreshold == 6000
HighThreshold == 7500
MediumThreshold == 5000

Callers == {"c1", "c2"}
MainCaller == "c1"

Rows == 1..NumRows
Batches == UNION {[1..n -> Rows] : n \in 1..MaxBatch}

Unfitted == [fitted |-> FALSE, run |-> 0]
Fitted(r) == [fitted |-> TRUE, run |-> r]

\* NTLDetector.__init__: the four estimators, unfitted, in dict order.
InitModels ==
    << [name |-> "random_forest", est |-> Unfitted],
       [name |-> "gradient_boosting", est |-> Unfitted],
       [name |-> "xgboost", est |-> Unfitted],
       [name |-> "lightgbm", est |-> Unfitted] >>

InitWeightsSkewed ==
    << [name |-> "random_forest", w |-> 20],
       [name |-> "gradient_boosting", w |-> 25],
       [name |-> "xgboost", w |-> 35],
       [name |-> "lightgbm", w |-> 25] >>

\* NTLDetector.__init__: the fusion weights, in dict order.
InitWeights ==
    << [name |-> "random_forest", w |-> 20],
       [name |-> "gradient_boosting", w |-> 25],
       [name |-> "xgboost", w |-> 30],
       [name |-> "lightgbm", w |-> 25] >>

ModelNames == {InitModels[i].name : i \in 1..Len(InitModels)}

Snapshot == [models |-> models, scaler |-> scaler,
             weights |-> model_weights, is_trained |-> is_trained]

----------------------------------------------------------------------------
(* The saved bundle *)

BundleKeys == {"models", "scaler", "weights"}

NoFile == [file |-> "none", keys |-> {}, models |-> InitModels,
           scaler |-> Unfitted, weights |-> InitWeights, writer |-> 0,
           metrics |-> FALSE]

CorruptFile == [NoFile EXCEPT !.file = "corrupt"]

\* A bundle an earlier process (run 0) left on disk, holding the keys ks.
PriorBundle(ks) ==
    [file |-> "bundle", keys |-> ks,
     models |-> [i \in 1..Len(InitModels) |->
                    [name |-> InitModels[i].name, est |-> Fitted(0)]],
     scaler |-> Fitted(0), weights |-> InitWeights, writer |-> 0,
     metrics |-> FALSE]

\* _save_model / train_and_evaluate's joblib.dump: the detector's fields
\* as they are at the time of the dump.
SavedBundle(run, withMetrics) ==
    [file |-> "bundle", keys |-> BundleKeys, models |-> models,
     scaler |-> scaler, weights |-> model_weights, writer |-> run,
     metrics |-> withMetrics]

----------------------------------------------------------------------------
(* Callers' locals *)

IdleLoc == [op |-> "none", run |-> 0, i |-> 0, rows |-> <<>>, sc |-> 0,
            probs |-> <<>>, acc |-> <<>>, used |-> {}, log |-> <<>>,
            maj |-> 0, min |-> 0, handed |-> "none", pipeline |-> FALSE,
            before |-> [models |-> InitModels, scaler |-> Unfitted,
                        weights |-> InitWeights, is_trained |-> FALSE],
            trained_at_call |-> FALSE]

NoResult == [kind |-> "none"]

TrainPcs == {"train_resample", "train_scale", "train_fit", "train_flag",
             "train_save"}

Constructed == load_log # "pending"

AllIdle == \A t \in Callers : pc[t] = "idle"

----------------------------------------------------------------------------
Init ==
    /\ models = InitModels
    /\ scaler = Unfitted
    /\ model_weights = InitWeights
    /\ is_trained = FALSE
    /\ feature_names = 0
    /\ load_log = "pending"
    /\ disk \in {NoFile, CorruptFile} \cup {PriorBundle(ks) : ks \in SUBSET BundleKeys}
    /\ nextRun = 1
    /\ pc = [t \in Callers |-> "idle"]
    /\ loc = [t \in Callers |-> IdleLoc]
    /\ result = [t \in Callers |-> NoResult]

----------------------------------------------------------------------------
(* NTLDetector._load_model, called once, by the constructor *)

\* The fields after the try block: each assignment happens only if every
\* lookup before it succeeded.
LoadedModels == IF disk.file = "bundle" /\ "models" \in disk.keys
                THEN disk.models ELSE models

LoadedScaler == IF disk.file = "bundle" /\ {"models", "scaler"} \subseteq disk.keys
                THEN disk.scaler ELSE scaler

LoadedWeights == IF disk.file = "bundle" /\ BundleKeys \subseteq disk.keys
                 THEN disk.weights ELSE model_weights

LoadSucceeds == disk.file = "bundle" /\ BundleKeys \subseteq disk.keys

LoadModel ==
    /\ load_log = "pending"
    /\ models' = LoadedModels
    /\ scaler' = LoadedScaler
    /\ model_weights' = LoadedWeights
    /\ is_trained' = (is_trained \/ LoadSucceeds)
    /\ load_log' = IF disk.file = "none" THEN "no_file"
                   ELSE IF LoadSucceeds THEN "loaded" ELSE "failed"
    /\ UNCHANGED <<feature_names, disk, nextRun, pc, loc, result>>

\* A new process constructs a new detector (app.py, module level).
Restart ==
    /\ Constructed
    /\ AllIdle
    /\ models' = InitModels
    /\ scaler' = Unfitted
    /\ model_weights' = InitWeights
    /\ is_trained' = FALSE
    /\ feature_names' = 0
    /\ load_log' = "pending"
    /\ result' = [t \in Callers |-> NoResult]
    /\ UNCHANGED <<disk, nextRun, pc, loc>>

\* NTLDetector.get_model_info
GetModelInfo ==
    [is_trained |-> is_trained,
     models |-> [i \in 1..Len(models) |-> models[i].name],
     model_weights |-> model_weights,
     feature_count |-> feature_names,
     status |-> IF is_trained THEN "operational" ELSE "requires_training"]

----------------------------------------------------------------------------
(* NTLDetector.train *)

Append2(log, stage) == IF log # <<>> /\ log[Len(log)] = stage THEN log
                       ELSE Append(log, stage)

\* Entry of train(): the run gets its identifier, the features of the
\* training frame are extracted (feature_engineer.transform).
BeginTrain(t, inPipeline) ==
    /\ nextRun <= MaxRuns
    /\ nextRun' = nextRun + 1
    /\ feature_names' = NumFeatures
    /\ pc' = [pc EXCEPT ![t] = "train_resample"]
    /\ loc' = [loc EXCEPT ![t] =
                 [IdleLoc EXCEPT !.op = "train", !.run = nextRun,
                                 !.pipeline = inPipeline,
                                 !.log = <<"FeatureExtracting">>,
                                 !.before = Snapshot]]
    /\ result' = [result EXCEPT ![t] = NoResult]
    /\ UNCHANGED <<models, scaler, model_weights, is_trained, load_log, disk>>

TrainStart(t) ==
    /\ Constructed
    /\ pc[t] = "idle"
    /\ BeginTrain(t, FALSE)

\* The gate of the resampling step:
\*   majority_class_count / (minority_class_count + 1) > 10
SmoteGate(maj, min) == maj > SmoteRatio * (min + 1)

\* An exception leaves train(): nothing is undone, the caller gets the error.
TrainAbort(t, stage) ==
    /\ pc' = [pc EXCEPT ![t] = "idle"]
    /\ loc' = [loc EXCEPT ![t] = IdleLoc]
    /\ result' = [result EXCEPT ![t] =
                    [kind |-> "train_failed", stage |-> stage,
                     run |-> loc[t].run, log |-> loc[t].log,
                     before |-> loc[t].before]]

\* Lines 123-140: count the classes of the labels, oversample or pass on.
\* SMOTE is a library call that may raise (too few minority samples).
TrainResample(t) ==
    /\ pc[t] = "train_resample"
    /\ \E maj \in 0..MaxMajority, min \in 0..MaxMinority :
         IF SmoteGate(maj, min)
         THEN \/ /\ pc' = [pc EXCEPT ![t] = "train_scale"]
                 /\ loc' = [loc EXCEPT ![t].maj = maj, ![t].min = min,
                                       ![t].handed = "oversampled",
                                       ![t].log = Append2(@, "Resampling")]
                 /\ UNCHANGED result
              \/ TrainAbort(t, "Resampling")
         ELSE /\ pc' = [pc EXCEPT ![t] = "train_scale"]
              /\ loc' = [loc EXCEPT ![t].maj = maj, ![t].min = min,
                                    ![t].handed = "inputs",
                                    ![t].log = Append2(@, "Resampling")]
              /\ UNCHANGED result
    /\ UNCHANGED <<detector, load_log, disk, nextRun>>

\* Line 143: self.scaler.fit_transform refits the detector's scaler in place.
TrainScale(t) ==
    /\ pc[t] = "train_scale"
    /\ scaler' = Fitted(loc[t].run)
    /\ pc' = [pc EXCEPT ![t] = "train_fit"]
    /\ loc' = [loc EXCEPT ![t].i = 1, ![t].maj = 0, ![t].min = 0,
                          ![t].log = Append2(@, "Scaling")]
    /\ UNCHANGED <<models, model_weights, is_trained, feature_names,
                   load_log, disk, nextRun, result>>

\* Line 148 succeeded: the i-th estimator of self.models is refitted in place.
TrainFitOk(t) ==
    /\ models' = [models EXCEPT ![loc[t].i].est = Fitted(loc[t].run)]
    /\ pc' = [pc EXCEPT ![t] =
                IF loc[t].i = Len(models) THEN "train_flag" ELSE "train_fit"]
    /\ loc' = [loc EXCEPT ![t].i = @ + 1,
                          ![t].log = Append2(@, "FittingModels")]
    /\ UNCHANGED result

\* A failed fit that is swallowed: the loop goes on to the next estimator.
TrainFitRaisesSwallowed(t) ==
    /\ models' = models
    /\ pc' = [pc EXCEPT ![t] =
                IF loc[t].i = Len(models) THEN "train_flag" ELSE "train_fit"]
    /\ loc' = [loc EXCEPT ![t].i = @ + 1,
                          ![t].log = Append2(@, "FittingModels")]
    /\ UNCHANGED result

\* Line 148 raised: the exception leaves the loop and train().
TrainFitRaises(t) ==
    /\ models' = models
    /\ TrainAbort(t, "FittingModels")

TrainFit(t) ==
    /\ pc[t] = "train_fit"
    /\ loc[t].i <= Len(models)
    /\ (TrainFitOk(t) \/ TrainFitRaises(t))
    /\ UNCHANGED <<scaler, model_weights, is_trained, feature_names,
                   load_log, disk, nextRun>>

\* Line 150
TrainSetTrained(t) ==
    /\ pc[t] = "train_flag"
    /\ is_trained' = TRUE
    /\ pc' = [pc EXCEPT ![t] = "train_save"]
    /\ UNCHANGED <<models, scaler, model_weights, feature_names,
                   load_log, disk, nextRun, loc, result>>

\* Line 154: _save_model writes the bundle; train() returns.  Inside the
\* pipeline the caller goes on to evaluate.
TrainSave(t) ==
    /\ pc[t] = "train_save"
    /\ disk' = SavedBundle(loc[t].run, FALSE)
    /\ IF loc[t].pipeline
       THEN /\ pc' = [pc EXCEPT ![t] = "pipe_eval"]
            /\ loc' = [loc EXCEPT ![t].log = Append2(@, "Persisted")]
            /\ UNCHANGED result
       ELSE /\ pc' = [pc EXCEPT ![t] = "idle"]
            /\ loc' = [loc EXCEPT ![t] = IdleLoc]
            /\ result' = [result EXCEPT ![t] =
                            [kind |-> "trained", run |-> loc[t].run,
                             log |-> Append2(loc[t].log, "Persisted"),
                             before |-> loc[t].before]]
    /\ UNCHANGED <<detector, load_log, nextRun>>

\* NTLDetector.retrain: a placeholder, it answers "success" always.
Retrain(t) ==
    /\ Constructed
    /\ pc[t] = "idle"
    /\ result' = [result EXCEPT ![t] =
                    [kind |-> "retrain", status |-> "success",
                     during_training |->
                        \E u \in Callers : pc[u] \in TrainPcs]]
    /\ UNCHANGED <<detector, load_log, disk, nextRun, pc, loc>>

----------------------------------------------------------------------------
(* Inference: predict_single, predict_proba, evaluate *)

\* estimator.predict_proba(...)[.., 1] of a fitted classifier (a library
\* call): a percentage that is a fixed function of which estimator it is,
\* the run that fitted it, the scaler that scaled the row, and the row.
ClassifierProb(i, est, sc, row) ==
    (13 * i + 17 * est.run + 7 * sc + 31 * row) % 101

\* self.model_weights[name]
WeightOf(weights, name) ==
    weights[CHOOSE j \in 1..Len(weights) : weights[j].name = name].w

HasWeight(weights, name) == \E j \in 1..Len(weights) : weights[j].name = name

RECURSIVE SumTo(_, _)
SumTo(f, n) == IF n = 0 THEN 0 ELSE SumTo(f, n - 1) + f[n]

Min2(a, b) == IF a < b THEN a ELSE b

\* predict_single, line 174: prob * self.model_weights[name]
SingleTerm(i, row) ==
    ClassifierProb(i, models[i].est, scaler.run, row)
        * WeightOf(model_weights, models[i].name)

\* predict_single, lines 171-176, on the detector as it is now
\* (sum(predictions), before the conversion to a percentage).
FusedSingle(row) ==
    SumTo([i \in 1..Len(models) |-> SingleTerm(i, row)], Len(models))

RiskLevelStrict(fused) ==
    IF fused > HighThreshold THEN "High"
    ELSE IF fused > MediumThreshold THEN "Medium"
    ELSE "Low"

\* Lines 185-193: the risk tier of a confidence score.
RiskLevel(fused) ==
    IF fused >= HighThreshold THEN "High"
    ELSE IF fused >= MediumThreshold THEN "Medium"
    ELSE "Low"

\* Entry of the three inference methods: feature_engineer.transform, then
\* self.scaler.transform, which raises NotFittedError on an unfitted scaler.
BeginInfer(t, op, rows, inPipeline) ==
    /\ feature_names' = NumFeatures
    /\ IF scaler.fitted
       THEN /\ pc' = [pc EXCEPT ![t] = "infer_model"]
            /\ loc' = [loc EXCEPT ![t] =
                         [IdleLoc EXCEPT !.op = op, !.rows = rows, !.i = 1,
                                         !.sc = scaler.run,
                                         !.acc = [k \in 1..Len(rows) |-> 0],
                                         !.used = {scaler.run},
                                         !.pipeline = inPipeline,
                                         !.run = loc[t].run,
                                         !.log = IF inPipeline
                                                 THEN Append2(loc[t].log, "Evaluating")
                                                 ELSE <<>>,
                                         !.trained_at_call = is_trained]]
            /\ result' = [result EXCEPT ![t] = NoResult]
       ELSE /\ pc' = [pc EXCEPT ![t] = "idle"]
            /\ loc' = [loc EXCEPT ![t] = IdleLoc]
            /\ result' = [result EXCEPT ![t] =
                            [kind |-> "error", op |-> op,
                             trained_at_call |-> is_trained]]
    /\ UNCHANGED <<models, scaler, model_weights, is_trained, load_log,
                   disk, nextRun>>

PredictSingleStart(t) ==
    /\ Constructed
    /\ pc[t] = "idle"
    /\ \E row \in Rows : BeginInfer(t, "predict_single", <<row>>, FALSE)

PredictProbaStart(t) ==
    /\ Constructed
    /\ pc[t] = "idle"
    /\ \E rows \in Batches : BeginInfer(t, "predict_proba", rows, FALSE)

EvaluateStart(t) ==
    /\ Constructed
    /\ pc[t] = "idle"
    /\ \E rows \in Batches : BeginInfer(t, "evaluate", rows, FALSE)

\* The i-th estimator's probabilities for the rows of the call.
ProbsOf(t) ==
    [k \in 1..Len(loc[t].rows) |->
        ClassifierProb(loc[t].i, models[loc[t].i].est, loc[t].sc,
                       loc[t].rows[k])]

\* predict_single line 174 and predict_proba line 358: the contribution is
\* weighted by the weight stored under the estimator's own name.
AccByName(t) ==
    [k \in 1..Len(loc[t].rows) |->
        loc[t].acc[k]
          + ProbsOf(t)[k] * WeightOf(model_weights, models[loc[t].i].name)]

\* One turn of the loop over self.models.items().  An unfitted estimator
\* raises NotFittedError; a name without a weight raises KeyError.
InferModel(t) ==
    /\ pc[t] = "infer_model"
    /\ loc[t].i <= Len(models)
    /\ IF ~models[loc[t].i].est.fitted
          \/ (loc[t].op # "evaluate"
              /\ ~HasWeight(model_weights, models[loc[t].i].name))
       THEN /\ pc' = [pc EXCEPT ![t] = "idle"]
            /\ loc' = [loc EXCEPT ![t] = IdleLoc]
            /\ result' = [result EXCEPT ![t] =
                            [kind |-> "error", op |-> loc[t].op,
                             trained_at_call |-> loc[t].trained_at_call]]
       ELSE /\ pc' = [pc EXCEPT ![t] =
                        IF loc[t].i = Len(models) THEN "infer_finish"
                        ELSE "infer_model"]
            /\ loc' = [loc EXCEPT
                         ![t].i = @ + 1,
                         ![t].used = @ \cup {models[loc[t].i].est.run},
                         ![t].probs = IF loc[t].op = "evaluate"
                                      THEN Append(@, ProbsOf(t)) ELSE @,
                         ![t].acc = IF loc[t].op = "evaluate"
                                    THEN @ ELSE AccByName(t)]
            /\ UNCHANGED result
    /\ UNCHANGED <<detector, load_log, disk, nextRun>>

EvaluateZipReversed(t) ==
    LET ws == model_weights
        n == Min2(Len(loc[t].probs), Len(ws))
    IN [k \in 1..Len(loc[t].rows) |->
          SumTo([i \in 1..n |-> loc[t].probs[i][k] * ws[Len(ws) + 1 - i].w], n)]

\* evaluate, line 315: the probabilities are paired with
\* self.model_weights.values() by position.
EvaluateZip(t) ==
    LET ws == model_weights
        n == Min2(Len(loc[t].probs), Len(ws))
    IN [k \in 1..Len(loc[t].rows) |->
          SumTo([i \in 1..n |-> loc[t].probs[i][k] * ws[i].w], n)]

\* The fused probabilities the call ends with.
FusedOf(t) == IF loc[t].op = "evaluate" THEN EvaluateZip(t) ELSE loc[t].acc

\* The call returns.  predict_single classifies the score; evaluate
\* thresholds the weighted probabilities at 0.6.
InferFinish(t) ==
    /\ pc[t] = "infer_finish"
    /\ IF loc[t].pipeline
       THEN /\ pc' = [pc EXCEPT ![t] = "pipe_dump"]
            /\ loc' = [loc EXCEPT ![t].acc = FusedOf(t)]
            /\ UNCHANGED result
       ELSE /\ pc' = [pc EXCEPT ![t] = "idle"]
            /\ loc' = [loc EXCEPT ![t] = IdleLoc]
            /\ result' = [result EXCEPT ![t] =
                 [kind |-> "prediction", op |-> loc[t].op,
                  rows |-> loc[t].rows, fused |-> FusedOf(t),
                  risk_level |-> RiskLevel(FusedOf(t)[1]),
                  decisions |-> [k \in 1..Len(loc[t].rows) |->
                                    FusedOf(t)[k] >= DecisionThreshold],
                  used |-> loc[t].used,
                  trained_at_call |-> loc[t].trained_at_call]]
    /\ UNCHANGED <<detector, load_log, disk, nextRun>>

----------------------------------------------------------------------------
(* train_model.py: train_and_evaluate, a process of its own *)

\* Line 128: detector = NTLDetector()
PipelineStart(t) ==
    /\ Constructed
    /\ AllIdle
    /\ models' = InitModels
    /\ scaler' = Unfitted
    /\ model_weights' = InitWeights
    /\ is_trained' = FALSE
    /\ feature_names' = 0
    /\ load_log' = "pending"
    /\ pc' = [pc EXCEPT ![t] = "pipe_new"]
    /\ result' = [u \in Callers |-> NoResult]
    /\ UNCHANGED <<disk, nextRun, loc>>

\* Line 134: detector.train(train_df, train_df['is_ntl'])
PipelineTrain(t) ==
    /\ Constructed
    /\ pc[t] = "pipe_new"
    /\ BeginTrain(t, TRUE)

\* Line 140: detector.evaluate(test_df, test_df['is_ntl'])
PipelineEvaluate(t) ==
    /\ pc[t] = "pipe_eval"
    /\ \E rows \in Batches : BeginInfer(t, "evaluate", rows, TRUE)

\* Lines 161-169: joblib.dump of the detector's fields with the metrics.
PipelineDump(t) ==
    /\ pc[t] = "pipe_dump"
    /\ disk' = SavedBundle(loc[t].run, TRUE)
    /\ pc' = [pc EXCEPT ![t] = "idle"]
    /\ loc' = [loc EXCEPT ![t] = IdleLoc]
    /\ result' = [result EXCEPT ![t] =
                    [kind |-> "pipeline_done", run |-> loc[t].run,
                     log |-> Append2(loc[t].log, "Persisted")]]
    /\ UNCHANGED <<detector, load_log, nextRun>>

----------------------------------------------------------------------------
CallerStep(t) ==
    \/ TrainStart(t)
    \/ TrainResample(t)
    \/ TrainScale(t)
    \/ TrainFit(t)
    \/ TrainSetTrained(t)
    \/ TrainSave(t)
    \/ Retrain(t)
    \/ PredictSingleStart(t)
    \/ PredictProbaStart(t)
    \/ EvaluateStart(t)
    \/ InferModel(t)
    \/ InferFinish(t)
    \/ PipelineStart(t)
    \/ PipelineTrain(t)
    \/ PipelineEvaluate(t)
    \/ PipelineDump(t)

\* One caller: every call runs to its end before the next one starts.
Next == LoadModel \/ Restart \/ CallerStep(MainCaller)

Spec == Init /\ [][Next]_vars

\* The calls that interleave when several callers share one detector object.
MethodStep(t) ==
    \/ TrainStart(t)
    \/ TrainResample(t)
    \/ TrainScale(t)
    \/ TrainFit(t)
    \/ TrainSetTrained(t)
    \/ TrainSave(t)
    \/ Retrain(t)
    \/ PredictSingleStart(t)
    \/ InferModel(t)
    \/ InferFinish(t)

\* The detector is constructed with no saved bundle or with a whole one.
InitConc ==
    /\ Init
    /\ disk \in {NoFile, PriorBundle(BundleKeys)}

NextConc == LoadModel \/ \E t \in Callers : MethodStep(t)

SpecConc == InitConc /\ [][NextConc]_vars

----------------------------------------------------------------------------
(* Properties *)

\* C1: predict_single on a detector whose is_trained is false never returns
\* a prediction: it ends with an error.
C1_UntrainedScoreFails ==
    \A t \in Callers :
        (result[t].kind = "prediction" /\ result[t].op = "predict_single")
            => result[t].trained_at_call

\* C2: an inference call that interleaves with train never uses a scaler
\* and estimators that were fitted by different training runs.
C2_SingleRunTriple ==
    \A t \in Callers :
        result[t].kind = "prediction" => Cardinality(result[t].used) = 1

\* C3: after train() failed in fitting an estimator, models, scaler,
\* weights and the trained flag are what they were before the call.
C3_FailedFitLeavesState ==
    \A t \in Callers :
        (result[t].kind = "train_failed" /\ result[t].stage = "FittingModels")
            => Snapshot = result[t].before

\* C4: a bundle written by a training run holds the scaler and every
\* estimator as fitted by that same run, and a run that failed has written
\* no bundle.
C4_NoPartialBundle ==
    /\ (disk.file = "bundle" /\ disk.writer >= 1) =>
          /\ disk.scaler = Fitted(disk.writer)
          /\ \A i \in 1..Len(disk.models) :
                disk.models[i].est = Fitted(disk.writer)
    /\ \A t \in Callers :
          result[t].kind = "train_failed" => disk.writer # result[t].run

\* A run wrote a bundle and a later run failed while fitting.
C4_Witness ==
    \E t \in Callers :
        /\ result[t].kind = "train_failed"
        /\ result[t].stage = "FittingModels"
        /\ disk.file = "bundle"
        /\ disk.writer >= 1
        /\ result[t].run > disk.writer

\* C5: no two training runs are in progress at once, and a retrain request
\* made while a run is in progress is rejected.
C5_OneTrainingAtATime ==
    /\ Cardinality({t \in Callers : pc[t] \in TrainPcs}) <= 1
    /\ \A t \in Callers :
          (result[t].kind = "retrain" /\ result[t].during_training)
              => result[t].status = "rejected"

TrainingStages == <<"FeatureExtracting", "Resampling", "Scaling",
                    "FittingModels", "Evaluating", "Persisted">>

EvaluatedBeforePersisted(log) ==
    \A k \in 1..Len(log) :
        log[k] = "Persisted" => \E j \in 1..(k - 1) : log[j] = "Evaluating"

\* C6: a finished training run went through the six stages in order, each
\* once, and no run persists before it has evaluated.
C6_StageOrder ==
    \A t \in Callers :
        /\ result[t].kind \in {"trained", "pipeline_done"} =>
              result[t].log = TrainingStages
        /\ EvaluatedBeforePersisted(loc[t].log)

\* C7: a _load_model that fails leaves the detector untrained, reporting
\* 'requires_training', with models, scaler and weights as they were.
C7_FailedLoadLeavesUntrained ==
    [][(load_log = "pending" /\ load_log' = "failed") =>
          /\ is_trained' = FALSE
          /\ GetModelInfo'.status = "requires_training"
          /\ models' = models
          /\ scaler' = scaler
          /\ model_weights' = model_weights]_vars

\* C8: the fused probability predict_proba and evaluate compute for each
\* row of a batch is the one predict_single computes for that row.
C8_BatchEqualsSingle ==
    \A t \in Callers :
        /\ (result[t].kind = "prediction"
            /\ result[t].op \in {"predict_proba", "evaluate"}) =>
              \A k \in 1..Len(result[t].rows) :
                  result[t].fused[k] = FusedSingle(result[t].rows[k])
        /\ pc[t] = "pipe_dump" =>
              \A k \in 1..Len(loc[t].rows) :
                  loc[t].acc[k] = FusedSingle(loc[t].rows[k])

\* evaluate returned for a batch of two different rows.
C8_Witness ==
    \E t \in Callers :
        /\ result[t].kind = "prediction"
        /\ result[t].op = "evaluate"
        /\ Len(result[t].rows) = 2
        /\ result[t].rows[1] # result[t].rows[2]
        /\ is_trained

\* C9: in a trained or loaded detector the weights are non-negative, there
\* is one for each estimator, under the same names, and they sum to 1.0.
C9_WeightsNormalised ==
    is_trained =>
        /\ \A j \in 1..Len(model_weights) : model_weights[j].w >= 0
        /\ Len(model_weights) = Len(models)
        /\ {model_weights[j].name : j \in 1..Len(model_weights)}
             = {models[i].name : i \in 1..Len(models)}
        /\ Cardinality({model_weights[j].name : j \in 1..Len(model_weights)})
             = Len(model_weights)
        /\ SumTo([j \in 1..Len(model_weights) |-> model_weights[j].w],
                 Len(model_weights)) = 100

\* A detector that loaded a bundle and was then trained again.
C9_Witness ==
    /\ is_trained
    /\ load_log = "loaded"
    /\ \A i \in 1..Len(models) : models[i].est.run >= 1

\* C10: with at least one theft label, train oversamples exactly when the
\* majority count is more than 10 times the minority count.
C10_SmoteIffRatioAbove10 ==
    \A t \in Callers :
        (pc[t] = "train_scale" /\ loc[t].min >= 1) =>
            (loc[t].handed = "oversampled"
                <=> loc[t].maj > 10 * loc[t].min)

----------------------------------------------------------------------------
(* predict_single, lines 176-202: from the confidence score to the result *)
(* A confidence score is given in thousandths of a percent (74.999 ->     *)
(* 74999); the reported confidence_score is in hundredths of a percent.   *)

BoundaryWindow == 10

\* The scores tried: every whole percent, and every thousandth near the
\* two thresholds.
ScoreInputs ==
    {1000 * k : k \in 0..100}
      \cup ((50000 - BoundaryWindow)..(50000 + BoundaryWindow))
      \cup ((75000 - BoundaryWindow)..(75000 + BoundaryWindow))

\* Lines 185-193 on a score in thousandths: score >= 75 exactly when the
\* score cut to hundredths is >= 75.00, and likewise for 50.
RiskOfScore(score) == RiskLevel(score \div 10)

\* Lines 187, 190, 193
RecommendedAction(score) ==
    IF score >= 10 * HighThreshold
        THEN "Immediate field inspection with legal team standby"
    ELSE IF score >= 10 * MediumThreshold
        THEN "Schedule inspection within 3 days"
    ELSE "Monitor for 30 days, flag if pattern continues"

\* Line 197: round(confidence_score, 2), to the nearest hundredth, a tie
\* to the even one.
Round2(score) ==
    LET q == score \div 10
        r == score % 10
    IN IF r < 5 THEN q
       ELSE IF r > 5 THEN q + 1
       ELSE IF q % 2 = 0 THEN q ELSE q + 1

\* The end of predict_single for a confidence score.
ScoreArgs == {[op |-> "classify", score |-> s] : s \in ScoreInputs}

ClassifyCall(t) ==
    /\ Constructed
    /\ pc[t] = "idle"
    /\ loc[t].op = "classify"
    /\ LET score == loc[t].score
       IN result' = [result EXCEPT ![t] =
                       [kind |-> "classified", score |-> score,
                        confidence_score |-> Round2(score),
                        risk_level |-> RiskOfScore(score),
                        recommended_action |-> RecommendedAction(score)]]
    /\ UNCHANGED <<detector, load_log, disk, nextRun, pc, loc>>

Classified(t) == result[t].kind = "classified"

\* C11: the tier and the action are decided by the score alone: High from
\* 75, Medium from 50 to below 75, Low below 50; 75.0 is High, 74.999 and
\* 50.0 are Medium, 49.999 is Low.
C11_RiskTiers ==
    \A t \in Callers : Classified(t) =>
        LET s == result[t].score
            tier == result[t].risk_level
            act == result[t].recommended_action
        IN /\ (tier = "High") <=> (s >= 75000)
           /\ (tier = "Medium") <=> (s >= 50000 /\ s < 75000)
           /\ (tier = "Low") <=> (s < 50000)
           /\ (act = "Immediate field inspection with legal team standby")
                 <=> (tier = "High")
           /\ (act = "Schedule inspection within 3 days")
                 <=> (tier = "Medium")
           /\ (act = "Monitor for 30 days, flag if pattern continues")
                 <=> (tier = "Low")
           /\ (s = 75000 => tier = "High")
           /\ (s = 74999 => tier = "Medium")
           /\ (s = 50000 => tier = "Medium")
           /\ (s = 49999 => tier = "Low")

\* A score of 74.999 was classified.
C11_Witness ==
    \E t \in Callers : Classified(t) /\ result[t].score = 74999

\* C19: the tier agrees with the confidence_score the result reports
\* (stated for the scores whose rounding is not a tie).
C19_TierMatchesReportedScore ==
    \A t \in Callers : (Classified(t) /\ result[t].score % 10 # 5) =>
        LET shown == result[t].confidence_score
            tier == result[t].risk_level
        IN /\ (shown >= 7500 => tier = "High")
           /\ ((shown >= 5000 /\ shown < 7500) => tier = "Medium")
           /\ (shown < 5000 => tier = "Low")

----------------------------------------------------------------------------
(* Customer records, as predict_single receives them *)

MaxMonths == 13
MaxShort == 3

\* Monthly readings (kWh) the histories are built from.
Levels == {0, 40, 50, 100, 1200}

\* n months: the last three at level r, the months before them at level h.
BlockHistory(n, h, r) == [i \in 1..n |-> IF i <= n - 3 THEN h ELSE r]

Histories ==
    {BlockHistory(n, h, r) : n \in 0..MaxMonths, h \in Levels, r \in Levels}
      \cup UNION {[1..n -> Levels] : n \in 0..MaxShort}

\* An ami_data dict: the keys it holds and their values.  No keys: the
\* dict is empty or None.
NoAmi == [keys |-> {}, tamper_alerts |-> 0, voltage_reading |-> 0]

AmiInputs ==
    {NoAmi}
      \cup {[keys |-> {"tamper_alerts", "voltage_reading"},
             tamper_alerts |-> a, voltage_reading |-> v] :
               a \in {0, 2}, v \in {180, 199, 200, 220}}
      \cup {[keys |-> {"tamper_alerts"}, tamper_alerts |-> a,
             voltage_reading |-> 0] : a \in {0, 2}}

CustomerTypes == {"residential", "commercial", "industrial"}

\* dict.get(key, default)
Get(d, key, default) == IF key \in d.keys THEN d[key] ELSE default

SumRange(f, a, b) == SumTo([i \in 1..(b - a + 1) |-> f[a + i - 1]], b - a + 1)

SumAll(f) == SumTo(f, Len(f))

\* Sum of consumption[-3:]
SumLast3(c) == IF Len(c) >= 3 THEN SumRange(c, Len(c) - 2, Len(c)) ELSE SumAll(c)

\* Sum of consumption[:-3]
SumBeforeLast3(c) == IF Len(c) > 3 THEN SumRange(c, 1, Len(c) - 3) ELSE 0

----------------------------------------------------------------------------
(* NTLDetector._identify_theft_patterns *)

DropIndicator == "Consumption dropped >50% vs. historical average"
TamperIndicator == "AMI tamper alerts detected"
VoltageIndicator == "Abnormal voltage drop (possible bypass)"
ProfileIndicator == "Residential account with commercial-level consumption"
FallbackIndicator == "Statistical anomaly detected in consumption pattern"

\* Lines 227-232: recent_avg < historical_avg * 0.5, with
\* recent_avg = sum(last 3) / 3 and historical_avg = sum(rest) / (n - 3).
DropRule(c) ==
    /\ Len(c) >= 12
    /\ 2 * (Len(c) - 3) * SumLast3(c) < 3 * SumBeforeLast3(c)

\* Lines 236-238
TamperRule(ami) == ami.keys # {} /\ Get(ami, "tamper_alerts", 0) > 0

VoltageRuleInclusive(ami) ==
    ami.keys # {} /\ Get(ami, "voltage_reading", 220) <= 200

\* Lines 236, 240-242
VoltageRule(ami) == ami.keys # {} /\ Get(ami, "voltage_reading", 220) < 200

\* Lines 245-249: np.mean(consumption) > 1000, 0 for an empty history.
ProfileRule(c, type) ==
    /\ type = "residential"
    /\ Len(c) > 0
    /\ SumAll(c) > 1000 * Len(c)

AppendIf(s, cond, x) == IF cond THEN Append(s, x) ELSE s

\* Lines 223-254
IdentifyTheftPatterns(c, ami, type) ==
    LET i1 == AppendIf(<<>>, DropRule(c), DropIndicator)
        i2 == AppendIf(i1, TamperRule(ami), TamperIndicator)
        i3 == AppendIf(i2, VoltageRule(ami), VoltageIndicator)
        i4 == AppendIf(i3, ProfileRule(c, type), ProfileIndicator)
    IN IF i4 = <<>> THEN <<FallbackIndicator>> ELSE i4

CustomerArgs ==
    {[op |-> "customer", consumption |-> c, ami_data |-> ami,
      customer_type |-> type] :
        c \in Histories, ami \in AmiInputs, type \in CustomerTypes}

IndicatorCall(t) ==
    /\ Constructed
    /\ pc[t] = "idle"
    /\ loc[t].op = "customer"
    /\ LET c == loc[t].consumption
           ami == loc[t].ami_data
           type == loc[t].customer_type
       IN result' = [result EXCEPT ![t] =
                       [kind |-> "indicators", consumption |-> c,
                        ami_data |-> ami, customer_type |-> type,
                        theft_indicators |->
                            IdentifyTheftPatterns(c, ami, type)]]
    /\ UNCHANGED <<detector, load_log, disk, nextRun, pc, loc>>

\* The four rules as the specification words them, on a record.
\* Rule 1, with the number of readings it needs.
SpecDropRule(c, minMonths) ==
    /\ Len(c) > 3
    /\ Len(c) >= minMonths
    /\ 2 * (Len(c) - 3) * SumLast3(c) < 3 * SumBeforeLast3(c)

SpecTamperRule(ami) ==
    (IF "tamper_alerts" \in ami.keys THEN ami.tamper_alerts ELSE 0) > 0

SpecVoltageRule(ami) ==
    "voltage_reading" \in ami.keys /\ ami.voltage_reading < 200

SpecProfileRule(c, type) ==
    type = "residential" /\ Len(c) > 0 /\ SumAll(c) > 1000 * Len(c)

IsRuleIndicator(x) ==
    x \in {DropIndicator, TamperIndicator, VoltageIndicator, ProfileIndicator}

\* What the rules give for the record of a result: one indicator per rule
\* that fires, in rule order; the fallback alone when none fires.
IndicatorsAsSpecified(r, minMonths) ==
    LET fired == [k \in 1..4 |->
                    CASE k = 1 -> SpecDropRule(r.consumption, minMonths)
                      [] k = 2 -> SpecTamperRule(r.ami_data)
                      [] k = 3 -> SpecVoltageRule(r.ami_data)
                      [] k = 4 -> SpecProfileRule(r.consumption, r.customer_type)]
        names == <<DropIndicator, TamperIndicator, VoltageIndicator,
                   ProfileIndicator>>
        got == r.theft_indicators
    IN /\ got # <<>>
       /\ \A k \in 1..4 :
             Cardinality({j \in 1..Len(got) : got[j] = names[k]})
                = (IF fired[k] THEN 1 ELSE 0)
       /\ \A i, j \in 1..Len(got) : \A k, l \in 1..4 :
             (i < j /\ got[i] = names[k] /\ got[j] = names[l]) => k < l
       /\ (\E k \in 1..4 : fired[k])
             => \A j \in 1..Len(got) : IsRuleIndicator(got[j])
       /\ (\A k \in 1..4 : ~fired[k]) => got = <<FallbackIndicator>>

\* C12 as amended: rule 1 is the drop rule on a history of at least 12
\* readings; the list is the indicators of the rules that fire, in rule
\* order, one per rule, and the fallback alone when none fires.
C12_IndicatorRules ==
    \A t \in Callers :
        result[t].kind = "indicators" => IndicatorsAsSpecified(result[t], 12)

\* A 12-month record on which rules 1, 2 and 3 fire.
C12_Witness ==
    \E t \in Callers :
        /\ result[t].kind = "indicators"
        /\ Len(result[t].consumption) = 12
        /\ result[t].theft_indicators
             = <<DropIndicator, TamperIndicator, VoltageIndicator>>

\* C12 as stated: rule 1 fires whenever the recent-3 average is below half
\* the historical average, whatever the number of readings.
C12_IndicatorRulesAnyLength ==
    \A t \in Callers :
        result[t].kind = "indicators" => IndicatorsAsSpecified(result[t], 0)

----------------------------------------------------------------------------
(* NTLDetector._estimate_monthly_loss *)

\* PHP per kWh, line 280.
BlendedRate == 10

ConfidenceInputs == 0..100

\* A mean is kept exact, as the pair of a sum and a count.
\* Line 271: np.mean(consumption[:-3]) if len > 3 else np.mean(consumption)
HistoricalAvg(c) ==
    IF Len(c) > 3 THEN [sum |-> SumBeforeLast3(c), n |-> Len(c) - 3]
    ELSE [sum |-> SumAll(c), n |-> Len(c)]

\* Line 272: np.mean(consumption[-3:]) if len >= 3 else consumption[-1]
CurrentConsumption(c) ==
    IF Len(c) >= 3 THEN [sum |-> SumLast3(c), n |-> 3]
    ELSE [sum |-> c[Len(c)], n |-> 1]

StolenKwhUnfloored(h, cur) ==
    [num |-> h.sum * cur.n - cur.sum * h.n, den |-> h.n * cur.n]

\* Line 275: max(0, historical_avg - current_consumption), as a fraction.
StolenKwh(h, cur) ==
    LET diff == h.sum * cur.n - cur.sum * h.n
    IN [num |-> IF diff > 0 THEN diff ELSE 0, den |-> h.n * cur.n]

\* Lines 265-282; the loss in PHP is num / den.
EstimateMonthlyLoss(c, confidence_score) ==
    IF c = <<>> THEN [num |-> 0, den |-> 1]
    ELSE LET stolen_kwh == StolenKwh(HistoricalAvg(c), CurrentConsumption(c))
         IN [num |-> stolen_kwh.num * confidence_score * BlendedRate,
             den |-> stolen_kwh.den * 100]

LossArgs ==
    {[op |-> "loss", consumption |-> c, confidence_score |-> k] :
        c \in Histories, k \in ConfidenceInputs}

LossCall(t) ==
    /\ Constructed
    /\ pc[t] = "idle"
    /\ loc[t].op = "loss"
    /\ result' = [result EXCEPT ![t] =
                    [kind |-> "loss", consumption |-> loc[t].consumption,
                     confidence_score |-> loc[t].confidence_score,
                     monthly_loss |->
                         EstimateMonthlyLoss(loc[t].consumption,
                                             loc[t].confidence_score)]]
    /\ UNCHANGED <<detector, load_log, disk, nextRun, pc, loc>>

NonDecreasing(c) == \A i \in 1..(Len(c) - 1) : c[i] <= c[i + 1]

\* The loss of a result against the stated formula.  H = hs / hn is the
\* mean of all but the last 3 readings (of all of them when there are at
\* most 3), C = cs / cn the mean of the last 3 (the last one when there are
\* fewer than 3); the loss num / den must be
\* max(0, H - C) * confidence / 100 * 10, over the denominator hn * cn * 100.
LossAsSpecified(r) ==
    LET c == r.consumption
        n == Len(c)
        k == r.confidence_score
        loss == r.monthly_loss
        early == IF n > 3 THEN SubSeq(c, 1, n - 3) ELSE c
        late == IF n >= 3 THEN SubSeq(c, n - 2, n) ELSE SubSeq(c, n, n)
        hs == SumAll(early)
        hn == Len(early)
        cs == SumAll(late)
        cn == Len(late)
        drop == hs * cn - cs * hn
    IN /\ loss.den > 0
       /\ loss.num >= 0
       /\ n = 0 => loss.num = 0
       /\ NonDecreasing(c) => loss.num = 0
       /\ n > 0 =>
            /\ loss.den = hn * cn * 100
            /\ loss.num = (IF drop > 0 THEN drop ELSE 0) * k * 10
            /\ (drop > 0 /\ k > 0) => loss.num > 0

\* C13: the estimated loss is max(0, H - C) x confidence/100 x 10; it is
\* never negative, 0 for an empty history and for a non-decreasing series,
\* and positive when C < H and the confidence is positive.
C13_LossFormula ==
    \A t \in Callers : result[t].kind = "loss" => LossAsSpecified(result[t])

\* Twelve months at 100 then 40 for the last three, confidence 50:
\* (100 - 40) * 0.5 * 10 = 300.
C13_Witness ==
    \E t \in Callers :
        /\ result[t].kind = "loss"
        /\ result[t].consumption = BlockHistory(12, 100, 40)
        /\ result[t].confidence_score = 50
        /\ result[t].monthly_loss.num = 300 * result[t].monthly_loss.den

----------------------------------------------------------------------------
(* The hotlist: app.py /predict/batch and utils/sample_data.py *)

MaxHotlist == 3

PriorityConfidenceOnly(p) == p.confidence_score

\* key=lambda x: x["confidence_score"] * x["estimated_monthly_loss"]
Priority(p) == p.confidence_score * p.estimated_monthly_loss

\* x goes behind every entry whose key is at least its own.
RECURSIVE InsertByPriority(_, _)
InsertByPriority(sorted, x) ==
    IF sorted = <<>> THEN <<x>>
    ELSE IF Priority(Head(sorted)) >= Priority(x)
         THEN <<Head(sorted)>> \o InsertByPriority(Tail(sorted), x)
         ELSE <<x>> \o sorted

\* list.sort(key=..., reverse=True): descending, and stable.
RECURSIVE SortByPriority(_)
SortByPriority(s) ==
    IF s = <<>> THEN <<>>
    ELSE InsertByPriority(SortByPriority(SubSeq(s, 1, Len(s) - 1)), s[Len(s)])

\* NTLDetector.predict_batch: no prediction for any identifier set.
PredictBatch(customer_ids) == <<>>

CustomerIds == {"CUST-1", "CUST-2", "unknown"}

BatchArgs == {[op |-> "batch", customer_ids |-> ids] : ids \in SUBSET CustomerIds}

\* app.py, the /predict/batch handler
PredictBatchEndpoint(t) ==
    /\ Constructed
    /\ pc[t] = "idle"
    /\ loc[t].op = "batch"
    /\ LET predictions == PredictBatch(loc[t].customer_ids)
       IN result' = [result EXCEPT ![t] =
                       [kind |-> "hotlist", source |-> "endpoint",
                        produced |-> predictions,
                        hotlist |-> SortByPriority(predictions),
                        error |-> FALSE]]
    /\ UNCHANGED <<detector, load_log, disk, nextRun, pc, loc>>

\* The draws of random.uniform for entry i (counted from 0): a confidence
\* from the band of its rank and a base loss.
ConfidenceDraws(i) ==
    IF i < 10 THEN {80, 90, 98}
    ELSE IF i < 30 THEN {60, 70, 85}
    ELSE {45, 50, 70}

BaseLossDraws == {5000, 20000, 50000}

\* One entry of generate_sample_hotlist, from its draws.
SamplePrediction(confidence, base_loss) ==
    [confidence_score |-> confidence,
     estimated_monthly_loss |-> (base_loss * confidence) \div 50,
     risk_level |-> RiskLevel(100 * confidence)]

RECURSIVE DrawsOfLen(_)
DrawsOfLen(n) ==
    IF n = 0 THEN {<<>>}
    ELSE {Append(d, [confidence |-> c, base_loss |-> b]) :
            d \in DrawsOfLen(n - 1), c \in ConfidenceDraws(n - 1),
            b \in BaseLossDraws}

SampleArgs ==
    {[op |-> "sample", draws |-> d] :
        d \in UNION {DrawsOfLen(n) : n \in 0..MaxHotlist}}

\* utils/sample_data.py, generate_sample_hotlist(num_customers)
GenerateSampleHotlist(t) ==
    /\ Constructed
    /\ pc[t] = "idle"
    /\ loc[t].op = "sample"
    /\ LET draws == loc[t].draws
           hotlist == [i \in 1..Len(draws) |->
                         SamplePrediction(draws[i].confidence,
                                          draws[i].base_loss)]
       IN result' = [result EXCEPT ![t] =
                       [kind |-> "hotlist", source |-> "sample",
                        produced |-> hotlist,
                        hotlist |-> SortByPriority(hotlist),
                        error |-> FALSE]]
    /\ UNCHANGED <<detector, load_log, disk, nextRun, pc, loc>>

Occurrences(s, x) == Cardinality({i \in 1..Len(s) : s[i] = x})

IsPermutation(a, b) ==
    /\ Len(a) = Len(b)
    /\ \A i \in 1..Len(a) : Occurrences(a, a[i]) = Occurrences(b, a[i])

\* The two predictions of the ranking scenario.
ScenarioA == [confidence_score |-> 90, estimated_monthly_loss |-> 1000]
ScenarioB == [confidence_score |-> 60, estimated_monthly_loss |-> 5000]

\* C14: the returned list is a permutation of the predictions produced,
\* every entry's confidence x loss is at least that of the entry after it,
\* (60, 5000) is ranked before (90, 1000), and the endpoint answers any
\* identifier set, the empty one included, with a list and no error.
C14_HotlistRanked ==
    /\ SortByPriority(<<ScenarioA, ScenarioB>>) = <<ScenarioB, ScenarioA>>
    /\ \A t \in Callers :
          result[t].kind = "hotlist" =>
            LET out == result[t].hotlist
            IN /\ IsPermutation(result[t].produced, out)
               /\ \A i \in 1..(Len(out) - 1) :
                     out[i].confidence_score * out[i].estimated_monthly_loss
                       >= out[i + 1].confidence_score
                            * out[i + 1].estimated_monthly_loss
               /\ ~result[t].error
               /\ (result[t].source = "endpoint"
                     /\ loc[t].customer_ids \subseteq {"unknown"})
                    => out = <<>>

\* A hotlist of three entries that the sort had to reorder.
C14_Witness ==
    \E t \in Callers :
        /\ result[t].kind = "hotlist"
        /\ Len(result[t].hotlist) = 3
        /\ result[t].hotlist[1] = result[t].produced[3]
        /\ result[t].hotlist[3] = result[t].produced[1]

----------------------------------------------------------------------------
(* FeatureEngineer: the rows it is given *)

\* Histories the extraction is run on.
ExtractHistories ==
    {BlockHistory(n, h, r) : n \in 0..MaxMonths, h \in {0, 100}, r \in {0, 40, 100}}

\* Coordinates in ten-thousandths of a degree: Manila, Cebu.
ManilaLat == 145995
ManilaLon == 1209842
Coordinates == {<<ManilaLat, ManilaLon>>, <<103157, 1238854>>}

BusinessLabels == {"restaurant", "retail"}

\* Telemetry dicts with all four keys, power factor in hundredths.
FullAmi ==
    [keys |-> {"tamper_alerts", "voltage_reading", "power_factor",
               "phase_imbalance"},
     tamper_alerts |-> 2, voltage_reading |-> 180, power_factor |-> 80,
     phase_imbalance |-> 3]

ExtractAmiInputs ==
    {NoAmi, FullAmi,
     [keys |-> {"tamper_alerts"}, tamper_alerts |-> 1, voltage_reading |-> 0]}

\* A customer as the utility knows it.  label "" : no business category.
Customers ==
    [readings : ExtractHistories, ami : ExtractAmiInputs,
     customer_type : CustomerTypes, label : BusinessLabels \cup {""},
     coords : Coordinates]

\* A cell of a row: a Python list or a str of comma-joined numbers.
ListOf(items) == [type |-> "list", items |-> items]
StrOf(items) == [type |-> "str", items |-> items]

\* predict_single's dict for a customer (the fields of app.py's
\* CustomerData); optional keys are left out when the customer has no
\* telemetry or no label, as is consumption_history when there are no
\* readings.
ServingRecord(cu) ==
    [keys |-> {"customer_type", "latitude", "longitude"}
                \cup (IF cu.readings = <<>> THEN {} ELSE {"consumption_history"})
                \cup (IF cu.ami.keys = {} THEN {} ELSE {"ami_data"})
                \cup (IF cu.label = "" THEN {} ELSE {"business_category"}),
     consumption_history |-> ListOf(cu.readings),
     consumption_array |-> ListOf(<<>>),
     ami_data |-> cu.ami,
     customer_type |-> cu.customer_type,
     business_category |-> cu.label,
     latitude |-> cu.coords[1], longitude |-> cu.coords[2],
     location_lat |-> 0, location_lng |-> 0]

\* The row fetch_training_data builds for a customer: consumption_history
\* is the GROUP_CONCAT string, the parsed list is consumption_array, the
\* coordinates are location_lat and location_lng.
TrainingRow(cu) ==
    [keys |-> {"customer_type", "location_lat", "location_lng",
               "consumption_history", "consumption_array"},
     consumption_history |-> StrOf(cu.readings),
     consumption_array |-> ListOf(cu.readings),
     ami_data |-> NoAmi,
     customer_type |-> cu.customer_type,
     business_category |-> "",
     latitude |-> 0, longitude |-> 0,
     location_lat |-> cu.coords[1], location_lng |-> cu.coords[2]]

\* HAVING total_readings >= 12
InTrainingSet(cu) == Len(cu.readings) >= 12

----------------------------------------------------------------------------
(* FeatureEngineer._extract_features *)

\* A feature value: an exact fraction num / den, or a numpy statistic fn
\* of the readings arg.
Exact(num, den) == [num |-> num, den |-> den, fn |-> "exact", arg |-> <<>>]
Stat(fn, c) == [num |-> 0, den |-> 1, fn |-> fn, arg |-> c]
Zero == Exact(0, 1)

\* A value and the expression of the source that computes it.
Feature(quantity, value) == [quantity |-> quantity, value |-> value]

AllEqual(c) == \A i \in 1..Len(c) : c[i] = c[1]

MinOf(c) == CHOOSE x \in {c[i] : i \in 1..Len(c)} : \A i \in 1..Len(c) : x <= c[i]
MaxOf(c) == CHOOSE x \in {c[i] : i \in 1..Len(c)} : \A i \in 1..Len(c) : x >= c[i]

\* Lines 100-104: the largest relative month-to-month drop, 0 at least.
MaxDrop(c) ==
    LET drops == {Zero} \cup
                   {Exact(c[i - 1] - c[i], c[i - 1]) :
                      i \in {j \in 2..Len(c) : c[j - 1] > 0}}
    IN CHOOSE d \in drops : \A e \in drops : d.num * e.den >= e.num * d.den

\* np.std is 0 exactly on a constant series, and a statistic otherwise.
StdOf(fn, c, constant) == IF constant THEN Zero ELSE Stat(fn, c)

DiffsAllEqual(c) ==
    \A i, j \in 1..(Len(c) - 1) : c[i + 1] - c[i] = c[j + 1] - c[j]

ZeroCount(c) == Cardinality({i \in 1..Len(c) : c[i] = 0})

\* Lines 72-135, for a list of at least 12 readings.
ConsumptionFeatures(c) ==
    LET n == Len(c)
        total == SumAll(c)
        recent == SumLast3(c)
        historical == SumBeforeLast3(c)
    IN << Feature("mean_consumption", Exact(total, n)),
          Feature("std_consumption", StdOf("np.std", c, AllEqual(c))),
          Feature("median_consumption", Stat("np.median", c)),
          Feature("slope", Stat("np.polyfit", c)),
          Feature("recent_ratio",
                  IF historical > 0 THEN Exact(recent * (n - 3), 3 * historical)
                  ELSE Exact(1, 1)),
          Feature("max_drop", MaxDrop(c)),
          Feature("cv",
                  IF total > 0 THEN StdOf("std / mean", c, AllEqual(c))
                  ELSE Zero),
          Feature("mom_mean", Exact(c[n] - c[1], n - 1)),
          Feature("mom_std", StdOf("np.std(np.diff)", c, DiffsAllEqual(c))),
          Feature("z_score_recent",
                  IF AllEqual(c) THEN Zero ELSE Stat("(recent - mean) / std", c)),
          Feature("zero_months", Exact(ZeroCount(c), n)),
          Feature("recent_avg", Exact(recent, 3)),
          Feature("historical_avg", Exact(historical, n - 3)),
          Feature("np.min(consumption)", Exact(MinOf(c), 1)),
          Feature("np.max(consumption)", Exact(MaxOf(c), 1)) >>

\* Line 54: [0] * 15
ConsumptionPlaceholder == [i \in 1..15 |-> Feature("placeholder", Zero)]

\* Line 149: [0, 220, 220, 220, 0.95, 0]
AmiDefaults ==
    << Feature("default", Zero), Feature("default", Exact(220, 1)),
       Feature("default", Exact(220, 1)), Feature("default", Exact(220, 1)),
       Feature("default", Exact(95, 100)), Feature("default", Zero) >>

\* Lines 137-169
AmiFeatures(ami_data) ==
    IF ami_data.keys = {} THEN AmiDefaults
    ELSE LET voltage == Get(ami_data, "voltage_reading", 220)
         IN << Feature("tamper_alerts",
                       Exact(Get(ami_data, "tamper_alerts", 0), 1)),
               Feature("voltage_avg", Exact(voltage, 1)),
               Feature("voltage_min", Exact(voltage * 95, 100)),
               Feature("voltage_max", Exact(voltage * 105, 100)),
               Feature("power_factor",
                       Exact(Get(ami_data, "power_factor", 95), 100)),
               Feature("phase_imbalance",
                       Exact(Get(ami_data, "phase_imbalance", 0), 1)) >>

\* The string hash seeds a Python process can start with.
HashSeeds == {0, 1}

\* hash(s) % 100 in a process started with the given seed: a value in
\* 0..99 fixed for the life of the process, and different under another
\* seed.
StrHashMod100(seed, s) ==
    LET code == CASE s = "none" -> 12
                  [] s = "restaurant" -> 57
                  [] s = "retail" -> 83
    IN (code + 41 * seed) % 100

Indicator01(b) == IF b THEN Exact(1, 1) ELSE Zero

\* Lines 171-199
ProfileFeatures(customer, seed) ==
    LET customer_type == Get(customer, "customer_type", "residential")
        business_category == Get(customer, "business_category", "none")
    IN << Feature("type_residential", Indicator01(customer_type = "residential")),
          Feature("type_commercial", Indicator01(customer_type = "commercial")),
          Feature("type_industrial", Indicator01(customer_type = "industrial")),
          Feature("category_encoded",
                  Exact(StrHashMod100(seed, business_category), 1)),
          Feature("account_age", Exact(24, 1)) >>

\* Lines 201-230, coordinates in ten-thousandths of a degree.
GeospatialFeatures(customer) ==
    LET lat == Get(customer, "latitude", ManilaLat)
        lon == Get(customer, "longitude", ManilaLon)
    IN << Feature("lat_normalized", Exact(lat - 140000, 70000)),
          Feature("lon_normalized", Exact(lon - 1200000, 70000)),
          Feature("distance_from_transformer", Exact(50, 1)),
          Feature("density_score", Exact(15, 1)) >>

ExtractFeaturesSwapped(customer, seed) ==
    LET consumption == Get(customer, "consumption_history", ListOf(<<>>))
        ami_data == Get(customer, "ami_data", NoAmi)
    IN (IF consumption.type = "list" /\ Len(consumption.items) >= 12
        THEN ConsumptionFeatures(consumption.items)
        ELSE ConsumptionPlaceholder)
         \o ProfileFeatures(customer, seed)
         \o AmiFeatures(ami_data)
         \o GeospatialFeatures(customer)

\* Lines 45-70: the four blocks, in order.
ExtractFeatures(customer, seed) ==
    LET consumption == Get(customer, "consumption_history", ListOf(<<>>))
        ami_data == Get(customer, "ami_data", NoAmi)
    IN (IF consumption.type = "list" /\ Len(consumption.items) >= 12
        THEN ConsumptionFeatures(consumption.items)
        ELSE ConsumptionPlaceholder)
         \o AmiFeatures(ami_data)
         \o ProfileFeatures(customer, seed)
         \o GeospatialFeatures(customer)

\* Lines 232-252
GetFeatureNames ==
    << "mean_consumption", "std_consumption", "median_consumption",
       "trend_slope", "recent_ratio", "max_drop", "coeff_variation",
       "mom_mean", "mom_std", "z_score_recent", "zero_months",
       "recent_avg", "historical_avg", "min_consumption", "max_consumption",
       "tamper_alerts", "voltage_avg", "voltage_min", "voltage_max",
       "power_factor", "phase_imbalance",
       "type_residential", "type_commercial", "type_industrial",
       "business_category", "account_age",
       "lat_normalized", "lon_normalized",
       "distance_transformer", "density_score" >>

\* The process a call runs in: the training script runs first and exits,
\* the service starts after it.
Running(t) ==
    /\ pc[t] = "idle"
    /\ t = MainCaller \/ pc[MainCaller] = "exited"

\* FeatureEngineer.transform on a one-row frame.
ExtractCall(t) ==
    /\ Constructed
    /\ Running(t)
    /\ loc[t].op = "extract"
    /\ feature_names' = IF feature_names = 0 THEN Len(GetFeatureNames)
                        ELSE feature_names
    /\ result' = [result EXCEPT ![t] =
                    [kind |-> "features", row |-> loc[t].row,
                     seed |-> loc[t].seed,
                     features |-> ExtractFeatures(loc[t].row, loc[t].seed),
                     error |-> FALSE]]
    /\ UNCHANGED <<models, scaler, model_weights, is_trained, load_log, disk,
                   nextRun, pc, loc>>

\* The first process ends; the next one constructs its own detector.
ProcessExit ==
    /\ Constructed
    /\ pc[MainCaller] = "idle"
    /\ pc' = [pc EXCEPT ![MainCaller] = "exited"]
    /\ models' = InitModels
    /\ scaler' = Unfitted
    /\ model_weights' = InitWeights
    /\ is_trained' = FALSE
    /\ feature_names' = 0
    /\ load_log' = "pending"
    /\ UNCHANGED <<disk, nextRun, loc, result>>

Extracted(t) == result[t].kind = "features"

\* The name of the feature a source expression computes.
FeatureNameOf(quantity) ==
    CASE quantity = "slope" -> "trend_slope"
      [] quantity = "cv" -> "coeff_variation"
      [] quantity = "np.min(consumption)" -> "min_consumption"
      [] quantity = "np.max(consumption)" -> "max_consumption"
      [] quantity = "category_encoded" -> "business_category"
      [] quantity = "distance_from_transformer" -> "distance_transformer"
      [] OTHER -> quantity

ReadingsOf(row) ==
    IF "consumption_history" \in row.keys /\ row.consumption_history.type = "list"
    THEN row.consumption_history.items ELSE <<>>

\* C15: every extraction returns 30 values, 15 consumption, 6 telemetry,
\* 5 profile and 4 geospatial, each at the position of its name in the
\* feature-name list; with fewer than 12 readings, or none, the first 15
\* are all zero, and no error is raised.
C15_ThirtyFeaturesInOrder ==
    \A t \in Callers :
        Extracted(t) =>
          LET f == result[t].features
          IN /\ Len(f) = 30
             /\ Len(GetFeatureNames) = 30
             /\ ~result[t].error
             /\ \A i \in 1..15 :
                   \/ f[i].quantity = "placeholder"
                   \/ FeatureNameOf(f[i].quantity) = GetFeatureNames[i]
             /\ \A i \in 16..21 :
                   \/ f[i].quantity = "default"
                   \/ FeatureNameOf(f[i].quantity) = GetFeatureNames[i]
             /\ \A i \in 22..30 :
                   FeatureNameOf(f[i].quantity) = GetFeatureNames[i]
             /\ Len(ReadingsOf(result[t].row)) < 12
                   => \A i \in 1..15 : f[i].value.num = 0 /\ f[i].value.fn = "exact"
             /\ Len(ReadingsOf(result[t].row)) >= 12
                   => \A i \in 1..15 : f[i].quantity # "placeholder"

\* An extraction from 11 readings and telemetry: 15 zeros, then the
\* telemetry block.
C15_Witness ==
    \E t \in Callers :
        /\ Extracted(t)
        /\ Len(ReadingsOf(result[t].row)) = 11
        /\ result[t].features[1].value = Zero
        /\ result[t].features[16].quantity = "tamper_alerts"

\* C16: without AMI telemetry the telemetry block is (0, V, 0.95 V,
\* 1.05 V, 0.95, 0) for the nominal voltage V = 220.
C16_DefaultTelemetryDerived ==
    \A t \in Callers :
        (Extracted(t) /\ "ami_data" \notin result[t].row.keys) =>
          LET f == result[t].features
              V == 220
          IN /\ f[16].value.num = 0
             /\ f[17].value.num = V * f[17].value.den
             /\ 100 * f[18].value.num = 95 * V * f[18].value.den
             /\ 100 * f[19].value.num = 105 * V * f[19].value.den
             /\ 100 * f[20].value.num = 95 * f[20].value.den
             /\ f[21].value.num = 0

\* Two feature values are the same number.
SameValue(a, b) ==
    /\ a.fn = b.fn
    /\ a.arg = b.arg
    /\ IF a.den = b.den THEN a.num = b.num
       ELSE a.num * b.den = b.num * a.den

SameVector(f, g) ==
    /\ Len(f) = Len(g)
    /\ \A i \in 1..Len(f) : SameValue(f[i].value, g[i].value)

\* C17: two extractions of the same record give the same vector, also
\* when they run in two processes.
C17_SameRecordSameVector ==
    \A t, u \in Callers :
        (Extracted(t) /\ Extracted(u) /\ result[t].row = result[u].row)
          => SameVector(result[t].features, result[u].features)

\* C20: the vector extracted from a customer's training row equals the one
\* extracted from the customer's serving record.  Stated for customers
\* without telemetry and business category, and for two processes with the
\* same string hash seed, so that only the row's columns differ.
C20_TrainingRowSameVector ==
    \A t, u \in Callers :
        (/\ Extracted(t) /\ Extracted(u)
         /\ result[t].row = TrainingRow(loc[t].customer)
         /\ result[u].row = ServingRecord(loc[t].customer)
         /\ "ami_data" \notin result[u].row.keys
         /\ "business_category" \notin result[u].row.keys
         /\ result[t].seed = result[u].seed)
          => SameVector(result[t].features, result[u].features)

----------------------------------------------------------------------------
(* Inference and the detector's state *)

\* A step of predict_single, predict_proba or evaluate.
InferenceStep ==
    \E t \in Callers :
        \/ PredictSingleStart(t)
        \/ PredictProbaStart(t)
        \/ EvaluateStart(t)
        \/ InferModel(t)
        \/ InferFinish(t)

\* C18: no step of an inference call changes what get_model_info returns
\* (trained flag, model names, weights, feature_count, status).
C18_InferenceKeepsModelInfo ==
    [][InferenceStep => GetModelInfo' = GetModelInfo]_vars

----------------------------------------------------------------------------
(* train_model.py main: the customers table and the runs of the script *)

NumCustomers == 2

\* risk_score thresholds of update_predictions_in_db, in 1/10000.
CriticalScore == 8000
HighScore == 6000
MediumScore == 4000

RiskLevels == {"low", "medium", "high", "critical"}

\* The MySQL server keeps the customers table; the script is MainCaller.
DbServer == "c2"

\* A customer of the table: the feature row transform extracts for it and
\* its risk_level column.
CustomerRows == [row : Rows, risk_level : RiskLevels]

Tables == [1..NumCustomers -> CustomerRows]

customers == loc[DbServer].customers

\* prepare_features, line 99: the label a run derives from the table.
IsNtl(level) == level \in {"high", "critical"}

Labels(table) == [k \in 1..NumCustomers |-> IsNtl(table[k].risk_level)]

\* Lines 220-230: the level written for a fused probability.
MlRiskLevel(fused) ==
    IF fused >= CriticalScore THEN "critical"
    ELSE IF fused >= HighScore THEN "high"
    ELSE IF fused >= MediumScore THEN "medium"
    ELSE "low"

\* main, lines 267-274: a run of the script constructs its detector after
\* the previous run has written its predictions.
MainStart(t) ==
    /\ result[t].kind # "pipeline_done"
    /\ PipelineStart(t)

\* update_predictions_in_db: predict_proba on the fetched frame, then one
\* autocommitted UPDATE per customer.
UpdatePredictionsInDb(t) ==
    /\ Constructed
    /\ pc[t] = "idle"
    /\ result[t].kind = "pipeline_done"
    /\ loc' = [loc EXCEPT ![DbServer].customers =
                 [k \in 1..NumCustomers |->
                    [row |-> customers[k].row,
                     risk_level |-> MlRiskLevel(FusedSingle(customers[k].row))]]]
    /\ result' = [result EXCEPT ![t] =
                    [kind |-> "db_updated", run |-> result[t].run,
                     labels_fetched |-> Labels(customers)]]
    /\ UNCHANGED <<detector, load_log, disk, nextRun, pc>>

\* C21: no step of a run of the training script changes the label is_ntl
\* that the next run derives for a customer from the customers table.
C21_LabelsKeptAcrossRuns ==
    [][Labels(customers') = Labels(customers)]_vars

----------------------------------------------------------------------------
(* The function calls as a specification *)

\* A detector constructed with no saved bundle.
\* The arguments of the call a process makes.
FnArgs ==
    ScoreArgs \cup CustomerArgs \cup LossArgs \cup BatchArgs \cup SampleArgs

InitFn ==
    /\ models = InitModels
    /\ scaler = Unfitted
    /\ model_weights = InitWeights
    /\ is_trained = FALSE
    /\ feature_names = 0
    /\ load_log = "pending"
    /\ disk = NoFile
    /\ nextRun = 1
    /\ pc = [t \in Callers |-> "idle"]
    /\ \E args \in FnArgs :
          loc = [t \in Callers |-> IF t = MainCaller THEN args ELSE IdleLoc]
    /\ result = [t \in Callers |-> NoResult]

FnStep(t) ==
    \/ ClassifyCall(t)
    \/ IndicatorCall(t)
    \/ LossCall(t)
    \/ PredictBatchEndpoint(t)
    \/ GenerateSampleHotlist(t)

NextFn == LoadModel \/ FnStep(MainCaller)

SpecFn == InitFn /\ [][NextFn]_vars

\* Two processes extract the features of one customer: the first from the
\* training row or the serving record, the second from the serving record.
InitExtract ==
    /\ models = InitModels
    /\ scaler = Unfitted
    /\ model_weights = InitWeights
    /\ is_trained = FALSE
    /\ feature_names = 0
    /\ load_log = "pending"
    /\ disk = NoFile
    /\ nextRun = 1
    /\ pc = [t \in Callers |-> "idle"]
    /\ \E cu \in Customers, s1 \in HashSeeds, s2 \in HashSeeds :
         \E first \in {ServingRecord(cu)}
                        \cup (IF InTrainingSet(cu) THEN {TrainingRow(cu)} ELSE {}) :
           loc = [t \in Callers |->
                    IF t = MainCaller
                    THEN [op |-> "extract", customer |-> cu, row |-> first,
                          seed |-> s1]
                    ELSE [op |-> "extract", customer |-> cu,
                          row |-> ServingRecord(cu), seed |-> s2]]
    /\ result = [t \in Callers |-> NoResult]

NextExtract == LoadModel \/ ProcessExit \/ \E t \in Callers : ExtractCall(t)

SpecExtract == InitExtract /\ [][NextExtract]_vars

\* The training script, run after run, on one customers table.
InitMain ==
    /\ models = InitModels
    /\ scaler = Unfitted
    /\ model_weights = InitWeights
    /\ is_trained = FALSE
    /\ feature_names = 0
    /\ load_log = "pending"
    /\ disk = NoFile
    /\ nextRun = 1
    /\ pc = [t \in Callers |-> "idle"]
    /\ \E table \in Tables :
         loc = [t \in Callers |->
                  IF t = DbServer THEN [op |-> "mysql", customers |-> table]
                  ELSE IdleLoc]
    /\ result = [t \in Callers |-> NoResult]

MainStep(t) ==
    \/ MainStart(t)
    \/ PipelineTrain(t)
    \/ TrainResample(t)
    \/ TrainScale(t)
    \/ TrainFit(t)
    \/ TrainSetTrained(t)
    \/ TrainSave(t)
    \/ PipelineEvaluate(t)
    \/ InferModel(t)
    \/ InferFinish(t)
    \/ PipelineDump(t)
    \/ UpdatePredictionsInDb(t)

NextMain == LoadModel \/ MainStep(MainCaller)

SpecMain == InitMain /\ [][NextMain]_vars

=============================================================================
